---------------------------- MODULE Spec2Model ----------------------------
(***************************************************************************)
(* Model of golf_leaderboard.py: the season walk of fetch_all_scores, the  *)
(* result extraction, the merge into the player map, calculate_leaderboard *)
(* and extract_from_wrapper.                                               *)
(*                                                                         *)
(* The upstream API is the environment: every request either raises or     *)
(* answers with a value drawn from a bounded set.  A Python dict is a      *)
(* sequence of records in insertion order.  A float average of integers is *)
(* kept as the exact fraction num/den and compared by cross-multiplying.   *)
(***************************************************************************)
EXTENDS Integers, Sequences, FiniteSets, TLC

VARIABLES
    pc,              \* position of main / fetch_all_scores
    events,          \* fetch_all_scores: events
    ev,              \* index of the current event in events
    rounds,          \* fetch_all_scores: rounds of the current event
    rd,              \* index of the current round in rounds
    tournament_ids,  \* fetch_all_scores: tournament_ids of the current round
    tn,              \* index of the current tournament in tournament_ids
    player_data,     \* fetch_all_scores: the accumulating player map
    returned,        \* main: player_data, once fetch_all_scores has returned
    min_rounds,      \* calculate_leaderboard: min_rounds
    leaderboard,     \* main: leaderboard
    printed,         \* print_leaderboard has run
    data,            \* extract_from_wrapper: data
    key,             \* extract_from_wrapper: key
    wrapped,         \* extract_from_wrapper: its outcome
    last,            \* history: what the last step did
    log,             \* history: every result get_tournament_results returned
    owed,            \* history: units listed and not yet requested
    lost,            \* history: complete entries of the last response not merged
    since_sleep      \* history: tournament-id listings since the last sleep

vars == <<pc, events, ev, rounds, rd, tournament_ids, tn, player_data,
          returned, min_rounds, leaderboard, printed, data, key, wrapped,
          last, log, owed, lost, since_sleep>>

-----------------------------------------------------------------------------
(* Bounds *)

MaxEvents == 2
MaxRounds == 2
MaxTournaments == 2
MaxResults == 2
MaxLog == 3

(* Program constants *)

MIN_ROUNDS == 5
BEST_N == 5

None == 0 - 1
NoName == "<None>"

SeqsUpTo(S, n) == UNION {[1..k -> S] : k \in 0..n}
Ids(n) == [i \in 1..n |-> i]

-----------------------------------------------------------------------------
(* _extract_player_results *)

Entry(m, n, t, g, s) ==
    [member_id |-> m, name |-> n, totals |-> t, gross_scores |-> g, total |-> s]

\* player.get('totals', {}) yields None for a null totals, and None.get raises
EntryRaises(player) ==
    \/ player.totals = "null"
    \/ player.totals = "dict" /\ player.gross_scores = "null"

gross_score(player) ==
    IF player.totals = "dict" /\ player.gross_scores = "dict"
    THEN player.total ELSE None

Truthy(x) == x \notin {None, 0}
TruthyStr(s) == s \notin {NoName, ""}

EntryValid(player) ==
    /\ Truthy(player.member_id)
    /\ TruthyStr(player.name)
    /\ gross_score(player) # None

PlayerResult(player) ==
    [member_id |-> player.member_id, name |-> player.name,
     gross_score |-> gross_score(player)]

RECURSIVE ExtractFrom(_, _)
ExtractFrom(individual_results, i) ==
    IF i > Len(individual_results) THEN [raised |-> FALSE, results |-> <<>>]
    ELSE IF EntryRaises(individual_results[i])
         THEN [raised |-> TRUE, results |-> <<>>]
         ELSE LET rest == ExtractFrom(individual_results, i + 1)
                  player == individual_results[i]
              IN  IF rest.raised THEN rest
                  ELSE [raised |-> FALSE,
                        results |-> IF EntryValid(player)
                                    THEN <<PlayerResult(player)>> \o rest.results
                                    ELSE rest.results]

extract_player_results(individual_results) == ExtractFrom(individual_results, 1)

-----------------------------------------------------------------------------
(* The merge of fetch_all_scores *)

IndexOf(pd, member_id) ==
    IF \E i \in 1..Len(pd) : pd[i].member_id = member_id
    THEN CHOOSE i \in 1..Len(pd) : pd[i].member_id = member_id
    ELSE 0

\* (mutant) the name kept from the first result of a member
MergeKeepName(pd, result) ==
    LET i == IndexOf(pd, result.member_id) IN
    IF i = 0
    THEN Append(pd, [member_id |-> result.member_id, name |-> result.name,
                     scores |-> <<result.gross_score>>])
    ELSE [pd EXCEPT ![i].scores = Append(@, result.gross_score)]

MergeResult(pd, result) ==
    LET i == IndexOf(pd, result.member_id) IN
    IF i = 0
    THEN Append(pd, [member_id |-> result.member_id, name |-> result.name,
                     scores |-> <<result.gross_score>>])
    ELSE [pd EXCEPT ![i] = [member_id |-> result.member_id,
                            name |-> result.name,
                            scores |-> Append(pd[i].scores, result.gross_score)]]

RECURSIVE MergeFrom(_, _, _)
MergeFrom(pd, results, i) ==
    IF i > Len(results) THEN pd
    ELSE MergeFrom(MergeResult(pd, results[i]), results, i + 1)

MergeResults(pd, results) == MergeFrom(pd, results, 1)

-----------------------------------------------------------------------------
(* calculate_leaderboard *)

RECURSIVE InsertSorted(_, _)
InsertSorted(s, x) ==
    IF s = <<>> THEN <<x>>
    ELSE IF x < Head(s) THEN <<x>> \o s
         ELSE <<Head(s)>> \o InsertSorted(Tail(s), x)

RECURSIVE SortFrom(_, _, _)
SortFrom(acc, s, i) ==
    IF i > Len(s) THEN acc ELSE SortFrom(InsertSorted(acc, s[i]), s, i + 1)

\* (mutant) the scores left in the order they were merged
unsorted(scores) == scores

\* sorted(scores)
sorted(scores) == SortFrom(<<>>, scores, 1)

Min(a, b) == IF a < b THEN a ELSE b

\* sorted(scores)[:5]
best_5(scores) == SubSeq(sorted(scores), 1, Min(BEST_N, Len(scores)))

RECURSIVE sum(_)
sum(s) == IF s = <<>> THEN 0 ELSE Head(s) + sum(Tail(s))

\* sum(best_5) / len(best_5), as an exact fraction
avg_best_5(best) == [num |-> sum(best), den |-> Len(best)]

AvgLess(a, b) == a.num * b.den < b.num * a.den
AvgEq(a, b) == a.num * b.den = b.num * a.den

\* (mutant) a record with exactly min_rounds scores skipped too
QualifiesAbove(scores, min) == ~(Len(scores) <= min)

\* if num_rounds < min_rounds: continue
Qualifies(scores, min) == ~(Len(scores) < min)

LeaderboardEntry(record) ==
    [name |-> record.name,
     avg_best_5 |-> avg_best_5(best_5(record.scores)),
     num_rounds |-> Len(record.scores),
     best_5 |-> best_5(record.scores)]

RECURSIVE EntriesFrom(_, _, _)
EntriesFrom(pd, min, i) ==
    IF i > Len(pd) THEN <<>>
    ELSE IF Qualifies(pd[i].scores, min)
         THEN <<LeaderboardEntry(pd[i])>> \o EntriesFrom(pd, min, i + 1)
         ELSE EntriesFrom(pd, min, i + 1)

\* list.sort(key=lambda x: x[1]) is stable: an entry goes after every entry
\* whose average is not greater than its own
RECURSIVE InsertByAvg(_, _)
InsertByAvg(board, e) ==
    IF board = <<>> THEN <<e>>
    ELSE IF AvgLess(e.avg_best_5, Head(board).avg_best_5) THEN <<e>> \o board
         ELSE <<Head(board)>> \o InsertByAvg(Tail(board), e)

RECURSIVE SortBoardFrom(_, _, _)
SortBoardFrom(acc, board, i) ==
    IF i > Len(board) THEN acc
    ELSE SortBoardFrom(InsertByAvg(acc, board[i]), board, i + 1)

\* (mutant) an unstable sort: an entry goes before the entries it ties with
RECURSIVE InsertBeforeTies(_, _)
InsertBeforeTies(board, e) ==
    IF board = <<>> THEN <<e>>
    ELSE IF ~AvgLess(Head(board).avg_best_5, e.avg_best_5) THEN <<e>> \o board
         ELSE <<Head(board)>> \o InsertBeforeTies(Tail(board), e)

RECURSIVE SortUnstableFrom(_, _, _)
SortUnstableFrom(acc, board, i) ==
    IF i > Len(board) THEN acc
    ELSE SortUnstableFrom(InsertBeforeTies(acc, board[i]), board, i + 1)

sort_unstable(board) == SortUnstableFrom(<<>>, board, 1)

sort_by_avg(board) == SortBoardFrom(<<>>, board, 1)

calculate_leaderboard(pd, min) == sort_by_avg(EntriesFrom(pd, min, 1))

-----------------------------------------------------------------------------
(* extract_from_wrapper *)

\* A JSON value is [kind, fields, items, id]: a dict maps each key of DictKeys
\* to the nested value it holds (0: the key is absent), a list holds items, and
\* "value" is a nested value, which extract_from_wrapper never looks into.
DictKeys == {"event", "events", "id"}
NestedValues == {1, 2}
WrapperKeys == {"event", "round"}

NoFields == [k \in DictKeys |-> 0]
Dict(f) == [kind |-> "dict", fields |-> f, items |-> <<>>, id |-> 0]
Scalar(kind) == [kind |-> kind, fields |-> NoFields, items |-> <<>>, id |-> 0]
List(items) == [kind |-> "list", fields |-> NoFields, items |-> items, id |-> 0]
Nested(v) == [kind |-> "value", fields |-> NoFields, items |-> <<>>, id |-> v]

\* key + 's'
plural_key(k) ==
    CASE k = "event" -> "events"
      [] k = "round" -> "rounds"
      [] k = "season" -> "seasons"
      [] k = "tournament" -> "tournaments"

\* k in d
Has(d, k) == k \in DictKeys /\ d.fields[k] # 0

Returned(items) == [raised |-> FALSE, as_is |-> 0, items |-> items]
ReturnedAsIs(v) == [raised |-> FALSE, as_is |-> v, items |-> <<>>]
Raised == [raised |-> TRUE, as_is |-> 0, items |-> <<>>]

\* [item.get(key, item) for item in data]: item.get raises AttributeError on
\* an item that is not a dict
FromList(d, k) ==
    IF \E i \in 1..Len(d.items) : d.items[i].kind # "dict"
    THEN Raised
    ELSE Returned([i \in 1..Len(d.items) |->
                     IF Has(d.items[i], k) THEN Nested(d.items[i].fields[k])
                     ELSE d.items[i]])

\* (mutant) the singular key looked up before the plural one
FromDictSingularFirst(d, k) ==
    IF Has(d, k) THEN Returned(<<Nested(d.fields[k])>>)
    ELSE IF Has(d, plural_key(k)) THEN ReturnedAsIs(d.fields[plural_key(k)])
    ELSE Returned(<<d>>)

FromDict(d, k) ==
    IF Has(d, plural_key(k)) THEN ReturnedAsIs(d.fields[plural_key(k)])
    ELSE IF Has(d, k) THEN Returned(<<Nested(d.fields[k])>>)
    ELSE Returned(<<d>>)

extract_from_wrapper(d, k) ==
    IF d.kind = "list" THEN FromList(d, k)
    ELSE IF d.kind = "dict" THEN FromDict(d, k)
    ELSE Returned(<<>>)

-----------------------------------------------------------------------------
(* The upstream's answers *)

\* A tournament response is kept as the individual_results list that
\* get_tournament_results reaches through scopes and aggregates.  Its entries
\* are drawn from: three complete ones, one without totals.gross_scores.total,
\* one whose totals is null.
RawEntries ==
    { Entry(1, "A", "dict", "dict", 70),
      Entry(1, "B", "dict", "dict", 71),
      Entry(2, "A", "dict", "dict", 70),
      Entry(1, "A", "dict", "dict", None),
      Entry(2, "B", "null", "absent", None) }

Responses == SeqsUpTo(RawEntries, MaxResults)

\* all three fields present and not null
EntryComplete(player) ==
    /\ player.member_id # None
    /\ player.name # NoName
    /\ player.totals = "dict" /\ player.gross_scores = "dict"
    /\ player.total # None

CountComplete(resp) == Cardinality({i \in 1..Len(resp) : EntryComplete(resp[i])})

NoOwed == [events |-> 0, rounds |-> 0, tournaments |-> 0]

-----------------------------------------------------------------------------
(* main and fetch_all_scores *)

Init ==
    /\ pc = "season"
    /\ events = <<>> /\ ev = 0
    /\ rounds = <<>> /\ rd = 0
    /\ tournament_ids = <<>> /\ tn = 0
    /\ player_data = <<>>
    /\ returned = <<>>
    /\ min_rounds = MIN_ROUNDS
    /\ leaderboard = <<>>
    /\ printed = FALSE
    /\ data = Scalar("null")
    /\ key = "event"
    /\ wrapped = Returned(<<>>)
    /\ last = "start"
    /\ log = <<>>
    /\ owed = NoOwed
    /\ lost = 0
    /\ since_sleep = 0

Other == <<min_rounds, leaderboard, printed, data, key, wrapped>>

\* an exception leaves fetch_all_scores and main re-raises it
Abort(why) ==
    /\ pc' = "aborted"
    /\ last' = why
    /\ lost' = 0
    /\ UNCHANGED <<events, ev, rounds, rd, tournament_ids, tn, player_data,
                   returned, log, owed, since_sleep>>
    /\ UNCHANGED Other

\* the loop over events ends or takes its next element
NextEvent(evs, e) ==
    IF e < Len(evs)
    THEN /\ ev' = e + 1
         /\ pc' = "rounds"
         /\ returned' = returned
    ELSE /\ ev' = e
         /\ pc' = "returned"
         /\ returned' = player_data'

\* the loop over rounds ends or takes its next element
NextRound(rds, r) ==
    IF r < Len(rds)
    THEN /\ rd' = r + 1
         /\ pc' = "tournament_ids"
         /\ ev' = ev
         /\ returned' = returned
    ELSE /\ rd' = r
         /\ NextEvent(events, ev)

\* the loop over tournament_ids ends or takes its next element
NextTournament(tids, t) ==
    IF t < Len(tids)
    THEN /\ tn' = t + 1
         /\ pc' = "results"
    ELSE /\ tn' = t
         /\ pc' = "sleep"

\* (mutant) the rounds listing failure caught, the next event taken
RoundsListingCaught ==
    /\ player_data' = player_data
    /\ rd' = rd
    /\ NextEvent(events, ev)
    /\ owed' = [owed EXCEPT !.events = @ - 1]
    /\ last' = "rounds_failed"
    /\ lost' = 0
    /\ UNCHANGED <<events, rounds, tournament_ids, tn, log, since_sleep>>
    /\ UNCHANGED Other

\* get_event_rounds raises outside every try of fetch_all_scores
RoundsListingFailed == Abort("rounds_failed")

\* (mutant) the tournament-id listing failure not caught
ExceptRoundAborts == Abort("tournament_ids_failed")

\* except Exception (line 310): continue with the next round, the sleep skipped
ExceptRound ==
    /\ player_data' = player_data
    /\ NextRound(rounds, rd)
    /\ owed' = [owed EXCEPT !.rounds = @ - 1]
    /\ last' = "tournament_ids_failed"
    /\ lost' = 0
    /\ since_sleep' = Min(since_sleep + 1, 2)
    /\ UNCHANGED <<events, rounds, tournament_ids, tn, log>>
    /\ UNCHANGED Other

\* except Exception (line 303): continue with the next tournament
ExceptTournament ==
    /\ last' = "results_failed"
    /\ lost' = 0
    /\ NextTournament(tournament_ids, tn)
    /\ UNCHANGED <<player_data, log>>

\* except AttributeError (line 298): continue with the next tournament
ExceptAttributeError(resp) ==
    /\ last' = "attribute_error"
    /\ lost' = CountComplete(resp)
    /\ NextTournament(tournament_ids, tn)
    /\ UNCHANGED <<player_data, log>>

\* main: get_season_id(SEASON_YEAR)
GetSeasonId ==
    /\ pc = "season"
    /\ \/ Abort("season_failed")
       \/ /\ pc' = "events"
          /\ last' = "season"
          /\ UNCHANGED <<events, ev, rounds, rd, tournament_ids, tn,
                         player_data, returned, log, owed, lost, since_sleep>>
          /\ UNCHANGED Other

\* events = get_events(season_id)
GetEvents ==
    /\ pc = "events"
    /\ \/ Abort("events_failed")
       \/ \E n \in 0..MaxEvents :
            /\ events' = Ids(n)
            /\ player_data' = player_data
            /\ NextEvent(Ids(n), 0)
            /\ owed' = [owed EXCEPT !.events = @ + n]
            /\ last' = "events"
            /\ lost' = 0
            /\ UNCHANGED <<rounds, rd, tournament_ids, tn, log, since_sleep>>
            /\ UNCHANGED Other

\* event.get('id'); rounds = get_event_rounds(event_id)
GetEventRounds ==
    /\ pc = "rounds"
    /\ \/ Abort("event_malformed")
       \/ RoundsListingFailed
       \/ \E n \in 0..MaxRounds :
            /\ rounds' = Ids(n)
            /\ player_data' = player_data
            /\ IF n = 0
               THEN /\ rd' = rd
                    /\ NextEvent(events, ev)
               ELSE /\ rd' = 1
                    /\ pc' = "tournament_ids"
                    /\ ev' = ev
                    /\ returned' = returned
            /\ owed' = [owed EXCEPT !.events = @ - 1, !.rounds = @ + n]
            /\ last' = "rounds"
            /\ lost' = 0
            /\ UNCHANGED <<events, tournament_ids, tn, log, since_sleep>>
            /\ UNCHANGED Other

\* round_data.get('id'); tournament_ids = get_tournament_ids(event_id, round_id)
GetTournamentIds ==
    /\ pc = "tournament_ids"
    /\ \/ Abort("round_malformed")
       \/ ExceptRound
       \/ \E n \in 0..MaxTournaments :
            /\ tournament_ids' = Ids(n)
            /\ NextTournament(Ids(n), 0)
            /\ owed' = [owed EXCEPT !.rounds = @ - 1, !.tournaments = @ + n]
            /\ last' = "tournament_ids"
            /\ lost' = 0
            /\ since_sleep' = Min(since_sleep + 1, 2)
            /\ UNCHANGED <<events, ev, rounds, rd, player_data, returned, log>>
            /\ UNCHANGED Other

\* results = get_tournament_results(...), then the merge of lines 289-296
GetTournamentResults ==
    /\ pc = "results"
    /\ \/ ExceptTournament
       \/ \E resp \in Responses :
            LET got == extract_player_results(resp) IN
            /\ Len(log) + Len(resp) <= MaxLog
            /\ IF got.raised
               THEN ExceptAttributeError(resp)
               ELSE /\ last' = "merged"
                    /\ lost' = CountComplete(resp) - Len(got.results)
                    /\ player_data' = MergeResults(player_data, got.results)
                    /\ log' = log \o got.results
                    /\ NextTournament(tournament_ids, tn)
    /\ owed' = [owed EXCEPT !.tournaments = @ - 1]
    /\ UNCHANGED <<events, ev, rounds, rd, tournament_ids, returned, since_sleep>>
    /\ UNCHANGED Other

\* time.sleep(0.3), then the next round
Sleep ==
    /\ pc = "sleep"
    /\ player_data' = player_data
    /\ NextRound(rounds, rd)
    /\ since_sleep' = 0
    /\ last' = "sleep"
    /\ lost' = 0
    /\ UNCHANGED <<events, rounds, tournament_ids, tn, log, owed>>
    /\ UNCHANGED Other

\* leaderboard = calculate_leaderboard(player_data)
Calculate ==
    /\ pc = "returned"
    /\ leaderboard' = calculate_leaderboard(returned, min_rounds)
    /\ pc' = "calculated"
    /\ last' = "calculated"
    /\ UNCHANGED <<events, ev, rounds, rd, tournament_ids, tn, player_data,
                   returned, min_rounds, printed, data, key, wrapped, log, owed,
                   lost, since_sleep>>

\* print_leaderboard(leaderboard)
PrintLeaderboard ==
    /\ pc = "calculated"
    /\ printed' = TRUE
    /\ pc' = "done"
    /\ last' = "printed"
    /\ UNCHANGED <<events, ev, rounds, rd, tournament_ids, tn, player_data,
                   returned, min_rounds, leaderboard, data, key, wrapped, log,
                   owed, lost, since_sleep>>

Next ==
    \/ GetSeasonId
    \/ GetEvents
    \/ GetEventRounds
    \/ GetTournamentIds
    \/ GetTournamentResults
    \/ Sleep
    \/ Calculate
    \/ PrintLeaderboard

Spec == Init /\ [][Next]_vars

-----------------------------------------------------------------------------
(* calculate_leaderboard on its own: the player map and min_rounds are drawn *)
(* from bounded sets.  Every record holds at least one score, as every      *)
(* record fetch_all_scores creates does, and names tell the records apart.  *)

MaxPlayers == 3
MaxScores == 2
MaxSeasonRounds == 6

ScoreValues == {70, 71}
SeasonScores == {70, 71, 72}
PlayerNames == <<"P1", "P2", "P3", "P4", "P5", "P6">>

Record(i, scores) == [member_id |-> i, name |-> PlayerNames[i], scores |-> scores]

\* the score lists of a record of a many-player map
BoardScores == SeqsUpTo(ScoreValues, MaxScores) \ {<<>>}

\* what calculate_leaderboard does not read
InitRest ==
    /\ pc = "returned"
    /\ player_data = returned
    /\ events = <<>> /\ ev = 0
    /\ rounds = <<>> /\ rd = 0
    /\ tournament_ids = <<>> /\ tn = 0
    /\ leaderboard = <<>>
    /\ printed = FALSE
    /\ data = Scalar("null")
    /\ key = "event"
    /\ wrapped = Returned(<<>>)
    /\ last = "start"
    /\ log = <<>>
    /\ owed = NoOwed
    /\ lost = 0
    /\ since_sleep = 0

\* a map of up to MaxPlayers records of up to MaxScores scores
InitCalc ==
    /\ \E n \in 0..MaxPlayers :
         \E f \in [1..n -> BoardScores] :
            returned = [i \in 1..n |-> Record(i, f[i])]
    /\ min_rounds \in 1..(MaxScores + 1)
    /\ InitRest

\* a map of one record of up to MaxSeasonRounds scores
InitSeason ==
    /\ \E n \in 1..MaxSeasonRounds :
         \E scores \in [1..n -> SeasonScores] :
            returned = <<Record(1, scores)>>
    /\ min_rounds \in 1..MaxSeasonRounds
    /\ InitRest

NextCalc ==
    \/ Calculate
    \/ PrintLeaderboard

SpecCalc == InitCalc /\ [][NextCalc]_vars

SpecSeason == InitSeason /\ [][NextCalc]_vars

-----------------------------------------------------------------------------
(* extract_from_wrapper on its own: data and key are drawn from bounded sets *)

MaxItems == 2

Dicts == {Dict(f) : f \in [DictKeys -> NestedValues \cup {0}]}
ListItems ==
    Dicts \cup {Scalar("num"), Scalar("str"), Scalar("null"), List(<<>>)}
Scalars == {Scalar("num"), Scalar("str"), Scalar("null")}

\* data is a list of up to MaxItems items, a dict, or neither
InitNorm ==
    /\ pc = "normalize"
    /\ \/ \E n \in 0..MaxItems :
            \E items \in [1..n -> ListItems] : data = List(items)
       \/ data \in Dicts
       \/ data \in Scalars
    /\ key \in WrapperKeys
    /\ wrapped = Returned(<<>>)
    /\ events = <<>> /\ ev = 0
    /\ rounds = <<>> /\ rd = 0
    /\ tournament_ids = <<>> /\ tn = 0
    /\ player_data = <<>>
    /\ returned = <<>>
    /\ min_rounds = MIN_ROUNDS
    /\ leaderboard = <<>>
    /\ printed = FALSE
    /\ last = "start"
    /\ log = <<>>
    /\ owed = NoOwed
    /\ lost = 0
    /\ since_sleep = 0

\* wrapped = extract_from_wrapper(data, key)
Normalize ==
    /\ pc = "normalize"
    /\ wrapped' = extract_from_wrapper(data, key)
    /\ pc' = "normalized"
    /\ last' = "normalized"
    /\ UNCHANGED <<events, ev, rounds, rd, tournament_ids, tn, player_data,
                   returned, min_rounds, leaderboard, printed, data, key, log,
                   owed, lost, since_sleep>>

NextNorm == Normalize

SpecNorm == InitNorm /\ [][NextNorm]_vars

-----------------------------------------------------------------------------
(* Properties of fetch_all_scores and main, checked under Spec *)

Finished == pc \in {"returned", "calculated", "done"}

\* the gross scores of member m's results in l, in the order of l
RECURSIVE ScoresOf(_, _)
ScoresOf(l, m) ==
    IF l = <<>> THEN <<>>
    ELSE IF Head(l).member_id = m
         THEN <<Head(l).gross_score>> \o ScoresOf(Tail(l), m)
         ELSE ScoresOf(Tail(l), m)

\* the name carried by the last result of member m in l
LastNameOf(l, m) ==
    LET k == CHOOSE k \in 1..Len(l) :
                 /\ l[k].member_id = m
                 /\ \A j \in (k + 1)..Len(l) : l[j].member_id # m
    IN  l[k].name

MembersOf(l) == {l[k].member_id : k \in 1..Len(l)}

\* C1: a failure of one round's tournament-id listing or of one tournament's
\* results fetch never aborts the run; once fetch_all_scores has returned,
\* nothing that was listed is left unrequested and the returned map holds, per
\* member, exactly the scores of the fetches that succeeded.
C1_FailuresContained ==
    /\ last \in {"tournament_ids_failed", "results_failed", "attribute_error"}
         => pc # "aborted"
    /\ Finished =>
         /\ owed = NoOwed
         /\ \A m \in MembersOf(log) :
              \E i \in 1..Len(returned) :
                 /\ returned[i].member_id = m
                 /\ returned[i].scores = ScoresOf(log, m)
         /\ \A i \in 1..Len(returned) : returned[i].member_id \in MembersOf(log)

\* the run returned right after the last round's listing failed, with the
\* scores of an earlier tournament in the map
C1_Witness ==
    /\ pc = "returned"
    /\ last = "tournament_ids_failed"
    /\ returned # <<>>

\* C2: an entry missing member_id, name or totals.gross_scores.total (absent
\* or null at any level) is dropped without an error, and every complete entry
\* of the same list is merged.
C2_MalformedEntryDropped ==
    last \in {"merged", "attribute_error"} => (last = "merged" /\ lost = 0)

\* C3: the player map holds one record per distinct member_id merged so far;
\* its scores are that member's gross scores in the order merged, its name is
\* the name of that member's most recent result.
C3_OneRecordPerMember ==
    /\ \A i, j \in 1..Len(player_data) :
         player_data[i].member_id = player_data[j].member_id => i = j
    /\ {player_data[i].member_id : i \in 1..Len(player_data)} = MembersOf(log)
    /\ \A i \in 1..Len(player_data) :
         /\ player_data[i].scores = ScoresOf(log, player_data[i].member_id)
         /\ player_data[i].name = LastNameOf(log, player_data[i].member_id)

\* two members, one of them merged twice under two names
C3_Witness ==
    /\ Len(player_data) = 2
    /\ \E i \in 1..2 :
         /\ Len(player_data[i].scores) = 2
         /\ \E k \in 1..Len(log) :
              /\ log[k].member_id = player_data[i].member_id
              /\ log[k].name # player_data[i].name

\* C9: no two rounds are requested without a sleep between them, also after a
\* round whose tournament-id listing failed.
C9_DelayAfterEveryRound == since_sleep <= 1

\* C10: a failure of get_event_rounds leaves fetch_all_scores: the run is
\* aborted and stays so, no player map reaches main, nothing is calculated or
\* printed.
C10_RoundsFailureAborts ==
    /\ last = "rounds_failed" => pc = "aborted"
    /\ pc = "aborted" =>
         /\ returned = <<>>
         /\ leaderboard = <<>>
         /\ ~printed
         /\ ~ENABLED Next

\* the rounds listing of the second event failed after scores were collected
C10_Witness ==
    /\ pc = "aborted"
    /\ last = "rounds_failed"
    /\ ev = 2
    /\ player_data # <<>>

-----------------------------------------------------------------------------
(* Properties of calculate_leaderboard, checked under SpecCalc (C4, C6) and *)
(* SpecSeason (C5)                                                         *)

Calculated == pc \in {"calculated", "done"}

EntriesNamed(n) == {k \in 1..Len(leaderboard) : leaderboard[k].name = n}

Count(s, v) == Cardinality({k \in 1..Len(s) : s[k] = v})

\* b is the Len(b) smallest values of s, ascending
SmallestOf(b, s) ==
    /\ \A k \in 1..(Len(b) - 1) : b[k] <= b[k + 1]
    /\ \A k \in 1..Len(b) : Count(b, b[k]) <= Count(s, b[k])
    /\ \A k \in 1..Len(s) :
         (\E j \in 1..Len(b) : s[k] < b[j]) => Count(b, s[k]) = Count(s, s[k])

\* the player map with scores k and k + 1 of record i exchanged
SwapScores(pd, i, k) ==
    [pd EXCEPT ![i].scores =
        [@ EXCEPT ![k] = pd[i].scores[k + 1], ![k + 1] = pd[i].scores[k]]]

\* exchanging two neighbouring scores of a record leaves the result as it is
\* (every permutation is a chain of such exchanges)
OrderIndependent ==
    \A i \in 1..Len(returned) :
      \A k \in 1..(Len(returned[i].scores) - 1) :
        calculate_leaderboard(SwapScores(returned, i, k), min_rounds) = leaderboard

C6_SortedAndStable ==
    Calculated =>
      /\ \A k \in 1..(Len(leaderboard) - 1) :
           ~AvgLess(leaderboard[k + 1].avg_best_5, leaderboard[k].avg_best_5)
      /\ \A k, l \in 1..Len(leaderboard) :
           (k < l /\ AvgEq(leaderboard[k].avg_best_5, leaderboard[l].avg_best_5))
             => \E i, j \in 1..Len(returned) :
                  /\ i < j
                  /\ returned[i].name = leaderboard[k].name
                  /\ returned[j].name = leaderboard[l].name

\* three entries: the last record of the map comes first, the other two tie
C6_Witness ==
    /\ pc = "calculated"
    /\ Len(returned) = 3
    /\ Len(leaderboard) = 3
    /\ leaderboard[1].name = returned[3].name
    /\ AvgEq(leaderboard[2].avg_best_5, leaderboard[3].avg_best_5)
    /\ AvgLess(leaderboard[1].avg_best_5, leaderboard[2].avg_best_5)

-----------------------------------------------------------------------------
(* Properties of extract_from_wrapper, checked under SpecNorm *)

AllDicts(items) == \A i \in 1..Len(items) : items[i].kind = "dict"

\* C7: the unwrapped items, in order, for each shape: the collection under the
\* plural key (before the singular key), the one value under the singular key,
\* the object itself, and per element of a list of objects the value under the
\* key or the element itself.
C7_UnwrapsEachShape ==
    pc = "normalized" =>
      /\ (data.kind = "dict" /\ Has(data, plural_key(key)))
           => wrapped = ReturnedAsIs(data.fields[plural_key(key)])
      /\ (data.kind = "dict" /\ ~Has(data, plural_key(key)) /\ Has(data, key))
           => wrapped = Returned(<<Nested(data.fields[key])>>)
      /\ (data.kind = "dict" /\ ~Has(data, plural_key(key)) /\ ~Has(data, key))
           => wrapped = Returned(<<data>>)
      /\ (data.kind = "list" /\ AllDicts(data.items))
           => /\ ~wrapped.raised
              /\ wrapped.as_is = 0
              /\ Len(wrapped.items) = Len(data.items)
              /\ \A i \in 1..Len(data.items) :
                   wrapped.items[i] =
                     IF Has(data.items[i], key)
                     THEN Nested(data.items[i].fields[key])
                     ELSE data.items[i]

\* an object holding both the plural and the singular key
C7_Witness ==
    /\ pc = "normalized"
    /\ key = "event"
    /\ data.kind = "dict"
    /\ data.fields["events"] = 1
    /\ data.fields["event"] = 2
    /\ wrapped.as_is = 1

\* C8: extract_from_wrapper never raises: elements of a list that are not
\* objects are kept as themselves, and a value that is neither a list nor an
\* object yields the empty sequence.
C8_NeverRaises ==
    pc = "normalized" =>
      /\ ~wrapped.raised
      /\ data.kind = "list" =>
           /\ Len(wrapped.items) = Len(data.items)
           /\ \A i \in 1..Len(data.items) :
                data.items[i].kind # "dict" => wrapped.items[i] = data.items[i]
      /\ data.kind \notin {"list", "dict"} => wrapped = Returned(<<>>)

=============================================================================
